---- MODULE Spec2Model ----
(***************************************************************************)
(* Model of script_watcher.py: the loader (ScriptWatcherLoader), the       *)
(* output capture (OutputCapture) and the operators that drive them        *)
(* (SW_OT_WatchStart, SW_OT_WatchEnd, SW_OT_Reload), together with the     *)
(* watched file as the environment.                                        *)
(***************************************************************************)
EXTENDS Integers, Sequences, FiniteSets, TLC

\* ---------------------------------------------------------------- bounds
MaxMtime == 2      \* modification times are 1..MaxMtime
MaxX == 2          \* a script binds x to a value in 1..MaxX
MaxHandlers == 2   \* modal handlers (and their timers) alive at once

\* The one element of a one-element set.
Only(S) == CHOOSE v \in S : TRUE

\* ------------------------------------------------------ the watched file
\* What a script does when it is read, compiled and executed:
\*   ok        binds x
\*   okmain    binds x and defines main(), which increments a global counter
\*   mainraise binds x and defines main(), which raises
\*   raise     binds x and then raises (a partial namespace is left)
\*   exit      binds x and then raises SystemExit (not an Exception)
\*   syntax    does not compile
Kinds == {"ok", "okmain", "mainraise", "raise", "exit", "syntax"}

\* The versions of the script an editor can save: plain ones binding x to
\* each value, and one of every other kind.
Contents ==
    [kind : {"ok"}, x : 1..MaxX]
        \cup [kind : {"okmain", "mainraise", "raise", "exit"}, x : {1}]
        \cup {[kind |-> "syntax", x |-> 0]}

NoContent == [kind |-> "syntax", x |-> -1]

NoFile == [exists |-> FALSE, mtime |-> 0, content |-> NoContent]

Files == [exists : {TRUE}, mtime : 1..MaxMtime, content : Contents]

\* Something done to the file by an editor while load_module is between
\* reading the text (line 83) and reading the modification time (line 90).
NoMid == [op |-> "none", mtime |-> 0, content |-> NoContent]

MidEvents ==
    {NoMid} \cup {[op |-> "delete", mtime |-> 0, content |-> NoContent]}
            \cup [op : {"write"}, mtime : 1..MaxMtime, content : Contents]

ApplyMid(f, mid) ==
    CASE mid.op = "none"   -> f
      [] mid.op = "delete" -> NoFile
      [] mid.op = "write"  -> [exists |-> TRUE, mtime |-> mid.mtime,
                               content |-> mid.content]

\* ------------------------------------------------------------ namespaces
\* A module object, by the bindings in its __dict__.  live = FALSE is None.
None == [live |-> FALSE, x |-> 0, main |-> FALSE, counter |-> 0]

EmptyModule == [live |-> TRUE, x |-> 0, main |-> FALSE, counter |-> 0]

\* The bindings a complete, successful execution of content c produces.
Bindings(c, run_main) ==
    [live |-> TRUE, x |-> c.x,
     main |-> (c.kind \in {"okmain", "mainraise"}),
     counter |-> IF run_main /\ c.kind = "okmain" THEN 1 ELSE 0]

\* exec(code, module.__dict__): the bindings made before the body ends or
\* raises.  main is defined after x is bound and after the raising statement.
ExecBody(c) ==
    [live |-> TRUE, x |-> c.x,
     main |-> (c.kind \in {"okmain", "mainraise"}), counter |-> 0]

\* exec(code, ns): the body's bindings are made in the namespace handed in;
\* names the body does not bind keep what the namespace held.  A script that
\* defines main() also binds its counter, to 0.
exec(ns, c) ==
    [live |-> TRUE, x |-> ExecBody(c).x,
     main |-> (ns.main \/ ExecBody(c).main),
     counter |-> IF ExecBody(c).main THEN ExecBody(c).counter ELSE ns.counter]

BodyOutcome(c) ==
    CASE c.kind \in {"ok", "okmain", "mainraise"} -> "ok"
      [] c.kind = "raise" -> "raise"
      [] c.kind = "exit"  -> "escape"
      [] OTHER -> "raise"

\* ----------------------------------------------------------------- state
VARIABLES
    file,         \* the watched file: [exists, mtime, content]
    pyPath,       \* the path has a Python source suffix (a spec can be made)
    settings,     \* scene.sw_settings: [running, reload, run_main, use_py_console]
    handlers,     \* registered modal handlers, newest first: [loader, _timer]
    timers,       \* timers registered with the window manager
    sys_modules,  \* sys.modules[_mod_name], None when absent
    sys_stdout,   \* where sys.stdout points: "orig" or "buffer"
    sys_stderr,   \* where sys.stderr points: "orig" or "buffer"
    console,      \* text that reached the original stdout/stderr
    alive,        \* the host process is running
    dirty,        \* the file changed after the last tick began looking at it
    last          \* what the last operator call or event did ("start", "tick",
                  \* "cancel" for an event that found the watch stopped, "none"
                  \* otherwise): its result, its counts of load_module calls,
                  \* script executions, main() calls and failed loads, and the
                  \* text its OutputCapture objects hold

vars == <<file, pyPath, settings, handlers, timers, sys_modules, sys_stdout,
          sys_stderr, console, alive, dirty, last>>

\* The state one operator call works on, threaded through its steps.
World ==
    [file |-> file, running |-> settings.running, reload |-> settings.reload,
     timers |-> timers, sys_modules |-> sys_modules,
     sys_stdout |-> sys_stdout, sys_stderr |-> sys_stderr,
     out |-> {}, err |-> {}, caps |-> << >>, console |-> console,
     loads |-> 0, execs |-> 0, mains |-> 0, failed |-> 0, midwrite |-> FALSE]

\* print(...) and traceback.print_exc(): text goes where the stream points.
PrintOut(w, text) ==
    IF w.sys_stdout = "orig"
    THEN [w EXCEPT !.console = @ \cup {text}]
    ELSE [w EXCEPT !.out = @ \cup {text}]

PrintErr(w, text) ==
    IF w.sys_stderr = "orig"
    THEN [w EXCEPT !.console = @ \cup {text}]
    ELSE [w EXCEPT !.err = @ \cup {text}]

\* -------------------------------------------------- ScriptWatcherLoader
\* __init__: module None, _last_mtime 0.
NewLoader(run_main) ==
    [module |-> None, _last_mtime |-> 0, run_main |-> run_main]

\* Mutant of LoadFailed: the failure path records the modification time too.
LoadFailed_records(ld, w) ==
    [loader |-> [ld EXCEPT !._last_mtime =
                     IF w.file.exists THEN w.file.mtime ELSE @],
     w |-> [PrintErr(PrintOut(w, "Error loading"), "traceback")
               EXCEPT !.failed = @ + 1],
     ret |-> "False"]

\* The except branch of load_module: report and return False.
LoadFailed(ld, w) ==
    [loader |-> ld,
     w |-> [PrintErr(PrintOut(w, "Error loading"), "traceback")
               EXCEPT !.failed = @ + 1],
     ret |-> "False"]

\* Mutant of RecordMtime: the modification time is not recorded.
RecordMtime_skip(ld, w) ==
    IF ~w.file.exists
    THEN LoadFailed(ld, w)
    ELSE [loader |-> ld, w |-> w, ret |-> "True"]

\* Lines 90-91: record the modification time, return True.  The file may
\* have been deleted by now, and getmtime then raises OSError.
RecordMtime(ld, w) ==
    IF ~w.file.exists
    THEN LoadFailed(ld, w)
    ELSE [loader |-> [ld EXCEPT !._last_mtime = w.file.mtime],
          w |-> w, ret |-> "True"]

\* Mutant of CallMain: main() is called whatever the mode.
CallMain_always(ld) == ld.module.main

\* Lines 86-88: call main() in run_main mode when the module defines it.
CallMain(ld) == ld.run_main /\ ld.module.main

\* Lines 82-91, once the text has been read and compiled.
ExecAndRecord(ld, w, c, mid) ==
    LET ns == exec(ld.module, c)
        ld1 == [ld EXCEPT !.module = ns]
        w1 == PrintOut([w EXCEPT !.sys_modules = ns, !.execs = @ + 1], "script")
    IN  CASE BodyOutcome(c) = "raise"  -> LoadFailed(ld1, w1)
          [] BodyOutcome(c) = "escape" ->
                 [loader |-> ld1, w |-> w1, ret |-> "escape"]
          [] OTHER ->
                 IF CallMain(ld1)
                 THEN LET w2 == [w1 EXCEPT !.mains = @ + 1]
                      IN  IF c.kind = "mainraise"
                          THEN LoadFailed(ld1, w2)
                          ELSE LET ns2 == [ns EXCEPT !.counter = @ + 1]
                               IN  RecordMtime(
                                     [ld1 EXCEPT !.module = ns2],
                                     [w2 EXCEPT !.sys_modules = ns2,
                                                !.file = ApplyMid(@, mid),
                                                !.midwrite = @ \/ mid.op # "none"])
                 ELSE RecordMtime(ld1, [w1 EXCEPT !.file = ApplyMid(@, mid),
                                                  !.midwrite = @ \/ mid.op # "none"])

\* Mutant of FreshModule: the namespace of the previous load is used again.
FreshModule_reused(ld) == IF ld.module.live THEN ld.module ELSE EmptyModule

\* Line 78: module_from_spec builds a new module, empty of script bindings.
FreshModule(ld) == EmptyModule

\* load_module.  mid is what an editor does to the file while the call is
\* between reading it and recording its time; it only happens on that path.
load_module(ld, w, mid) ==
    LET w0 == [w EXCEPT !.sys_modules = None, !.loads = @ + 1]
    IN  IF ~pyPath
        THEN LoadFailed(ld, w0)                       \* spec is None
        ELSE LET ld1 == [ld EXCEPT !.module = FreshModule(ld)]
                 w1 == [w0 EXCEPT !.sys_modules = ld1.module]
             IN  IF ~w.file.exists \/ w.file.content.kind = "syntax"
                 THEN LoadFailed(ld1, w1)             \* open or compile raises
                 ELSE ExecAndRecord(ld1, w1, w.file.content, mid)

\* Whether load_module gets as far as line 90 on this file.
ReachesRecord(ld, f) ==
    /\ pyPath /\ f.exists
    /\ BodyOutcome(f.content) = "ok" /\ f.content.kind # "syntax"
    /\ ~(ld.run_main /\ f.content.kind = "mainraise")

\* Mutants of NeedsReload: any difference counts, or equality counts too.
NeedsReload_ne(current_mtime, last_mtime) == current_mtime # last_mtime

NeedsReload_ge(current_mtime, last_mtime) == current_mtime >= last_mtime

\* Line 101.
NeedsReload(current_mtime, last_mtime) == current_mtime > last_mtime

\* Mutant of check_reload: a missing file is handed to load_module.
check_reload_missing_loads(ld, w, mid) ==
    IF ~w.file.exists \/ NeedsReload(w.file.mtime, ld._last_mtime)
    THEN load_module(ld, w, mid)
    ELSE [loader |-> ld, w |-> w, ret |-> "False"]

\* check_reload.
check_reload(ld, w, mid) ==
    IF ~w.file.exists
    THEN [loader |-> ld, w |-> w, ret |-> "False"]    \* OSError swallowed
    ELSE IF NeedsReload(w.file.mtime, ld._last_mtime)
         THEN load_module(ld, w, mid)
         ELSE [loader |-> ld, w |-> w, ret |-> "False"]

\* ---------------------------------------------------------- OutputCapture
OutputCapture_init(w) == [_stdout |-> w.sys_stdout, _stderr |-> w.sys_stderr]

OutputCapture_enter(cap, w) ==
    [w EXCEPT !.sys_stdout = "buffer", !.sys_stderr = "buffer",
              !.out = {}, !.err = {}]

\* Mutant of OutputCapture_exit: stderr is not put back.
OutputCapture_exit_stdout_only(cap, w) ==
    [w EXCEPT !.sys_stdout = cap._stdout]

OutputCapture_exit(cap, w) ==
    [w EXCEPT !.sys_stdout = cap._stdout, !.sys_stderr = cap._stderr]

\* get_output(): the text the buffers hold.
OutputCapture_get_output(w) == [out |-> w.out, err |-> w.err]

\* -------------------------------------------------------- SW_OT_WatchStart
\* Mutant of cancel: the timer is left registered.
cancel_keeps_timer(h, w) == [w EXCEPT !.running = FALSE]

\* cancel(): remove the timer, clear running.
cancel(h, w) ==
    [w EXCEPT !.timers = @ \ {h._timer}, !.running = FALSE]

\* A with-block: the load runs inside one OutputCapture, whose __exit__ runs
\* however the block is left (fall-through, return, or an escaping error).
\* check selects check_reload (line 147) over load_module (lines 144, 164).
LeaveCapture(cap, r) ==
    LET w2 == OutputCapture_exit(cap, r.w)
    IN  [r EXCEPT !.w = [w2 EXCEPT !.caps = Append(@, OutputCapture_get_output(w2))]]

CapturedLoad(ld, w, check, mid) ==
    LET cap == OutputCapture_init(w)
        w1 == OutputCapture_enter(cap, w)
    IN  Only({ LeaveCapture(cap, r) :
               r \in { IF check THEN check_reload(ld, w1, mid)
                       ELSE load_module(ld, w1, mid) } })

\* Mutant of ClearReload: the flag is left set.
ClearReload_keep(w) == w

\* Line 142: the flag is cleared before the load.
ClearReload(w) == [w EXCEPT !.reload = FALSE]

\* modal(): one event delivered to one handler.
modal(h, w, event, mid) ==
    IF ~w.running
    THEN [h |-> h, w |-> cancel(h, w), ret |-> "CANCELLED"]
    ELSE IF event = "TIMER"
         THEN LET forced == w.reload
                  w1 == IF forced THEN ClearReload(w) ELSE w
              IN  Only({ [h |-> [h EXCEPT !.loader = r.loader], w |-> r.w,
                          ret |-> IF r.ret = "escape" THEN "escape"
                                  ELSE "PASS_THROUGH"] :
                         r \in { CapturedLoad(h.loader, w1, ~forced, mid) } })
         ELSE [h |-> h, w |-> w, ret |-> "PASS_THROUGH"]

\* The window manager hands an event to every modal handler in turn, newest
\* first; a handler that returns CANCELLED is removed, PASS_THROUGH hands the
\* event on.  An error that leaves modal() ends the dispatch.  The k-th
\* handler's load is the one the editor's write (mid) falls into.
RECURSIVE Dispatch(_, _, _, _, _, _)
Dispatch(done, todo, w, event, k, mid) ==
    IF todo = << >>
    THEN [handlers |-> done, w |-> w, escaped |-> FALSE]
    ELSE Only({ CASE r.ret = "escape" ->
                       [handlers |-> done \o <<r.h>> \o Tail(todo), w |-> r.w,
                        escaped |-> TRUE]
                  [] r.ret = "CANCELLED" ->
                       Dispatch(done, Tail(todo), r.w, event, k, mid)
                  [] OTHER ->
                       Dispatch(Append(done, r.h), Tail(todo), r.w, event, k, mid) :
                r \in { modal(Head(todo), w, event,
                              IF Len(done) + 1 = k THEN mid ELSE NoMid) } })

FreshTimer == CHOOSE t \in 1..MaxHandlers : t \notin timers

\* What an operation reports about itself.
Did(op, ret, report, w, forced, midAt) ==
    [op |-> op, ret |-> ret, report |-> report,
     loads |-> w.loads, execs |-> w.execs, mains |-> w.mains,
     failed |-> w.failed, caps |-> w.caps,
     forced |-> forced,    \* the call made a forced load (line 144)
     midAt |-> midAt,      \* which handler's load an editor wrote into, or 0
     before |-> None]      \* the namespace the newest watcher held when the
                           \* tick began (an empty one is what a failed load
                           \* leaves behind)

\* What is recorded after a step of the environment.
Env == Did("none", "", "", World, FALSE, 0)

\* The part of the state an operator call leaves behind.
Commit(w) ==
    /\ file' = w.file
    /\ timers' = w.timers
    /\ sys_modules' = w.sys_modules
    /\ sys_stdout' = w.sys_stdout
    /\ sys_stderr' = w.sys_stderr
    /\ console' = w.console

\* Mutant of isfile: the existence check is skipped.
isfile_always(f) == TRUE

\* Mutant of LoadRefused: the result of the initial load is ignored.
LoadRefused_never(ret) == FALSE

\* Mutant of AlreadyRunning: a start goes ahead whatever the flag says.
AlreadyRunning_never(s) == FALSE

\* Line 153: "if settings.running: return {'CANCELLED'}".
AlreadyRunning(s) == s.running

\* Line 157: os.path.isfile(filepath).
isfile(f) == f.exists

\* Line 164: "if not self.loader.load_module(): return {'CANCELLED'}".
LoadRefused(ret) == ret = "False"

MidAt(w, k) == IF w.midwrite THEN k ELSE 0

\* execute().
SW_OT_WatchStart_execute(mid) ==
    /\ alive
    /\ settings.running \/ Len(handlers) < MaxHandlers
    /\ IF AlreadyRunning(settings)
       THEN /\ mid = NoMid
            /\ last' = Did("start", "CANCELLED", "", World, FALSE, 0)
            /\ UNCHANGED <<file, pyPath, settings, handlers, timers, sys_modules,
                           sys_stdout, sys_stderr, console, alive, dirty>>
       ELSE IF ~isfile(file)
       THEN /\ mid = NoMid
            /\ last' = Did("start", "CANCELLED", "Script file not found", World, FALSE, 0)
            /\ UNCHANGED <<file, pyPath, settings, handlers, timers, sys_modules,
                           sys_stdout, sys_stderr, console, alive, dirty>>
       ELSE \E r \in { CapturedLoad(NewLoader(settings.run_main), World, FALSE, mid) } :
                /\ mid = NoMid \/ r.w.midwrite
                /\ dirty' = (dirty \/ r.w.midwrite)
                /\ UNCHANGED pyPath
                /\ IF r.ret = "escape"
                   THEN /\ Commit(r.w)
                        /\ UNCHANGED <<handlers, settings>>
                        /\ alive' = FALSE
                        /\ last' = Did("start", "escape", "", r.w, FALSE, MidAt(r.w, 1))
                   ELSE IF LoadRefused(r.ret)
                   THEN /\ Commit(r.w)
                        /\ UNCHANGED <<handlers, settings, alive>>
                        /\ last' = Did("start", "CANCELLED", "", r.w, FALSE, MidAt(r.w, 1))
                   ELSE /\ Commit([r.w EXCEPT !.timers = @ \cup {FreshTimer}])
                        /\ handlers' = <<[loader |-> r.loader, _timer |-> FreshTimer]>>
                                         \o handlers
                        /\ settings' = [settings EXCEPT !.running = TRUE]
                        /\ alive' = alive
                        /\ last' = Did("start", "RUNNING_MODAL", "", r.w, FALSE,
                                       MidAt(r.w, 1))

\* The host delivers one event (a timer event or any other) to the handlers.
HostEvent(event, k, mid) ==
    /\ alive
    /\ handlers # << >>
    /\ k \in 1..Len(handlers)
    /\ mid # NoMid =>
          event = "TIMER" /\ settings.running /\ ReachesRecord(handlers[k].loader, file)
    /\ mid = NoMid => k = 1
    /\ \E r \in { Dispatch(<< >>, handlers, World, event, k, mid) },
          tick \in { event = "TIMER" /\ settings.running } :
           /\ mid = NoMid \/ r.w.midwrite
           /\ Commit(r.w)
           /\ handlers' = r.handlers
           /\ settings' = [settings EXCEPT !.running = r.w.running,
                                           !.reload = r.w.reload]
           /\ dirty' = IF tick THEN r.w.midwrite ELSE dirty
           /\ alive' = ~r.escaped
           /\ last' = [Did(CASE tick -> "tick"
                               [] ~settings.running -> "cancel"
                               [] OTHER -> "none",
                             IF r.escaped THEN "escape" ELSE "", "", r.w,
                             tick /\ settings.reload, MidAt(r.w, k))
                          EXCEPT !.before =
                              IF tick THEN handlers[1].loader.module ELSE None]
           /\ UNCHANGED pyPath

\* SW_OT_WatchEnd.execute().
SW_OT_WatchEnd_execute ==
    /\ alive
    /\ settings' = [settings EXCEPT !.running = FALSE]
    /\ last' = Env
    /\ UNCHANGED <<file, pyPath, handlers, timers, sys_modules, sys_stdout,
                   sys_stderr, console, alive, dirty>>

\* SW_OT_Reload.execute().
SW_OT_Reload_execute ==
    /\ alive
    /\ settings' = [settings EXCEPT !.reload = TRUE]
    /\ last' = Env
    /\ UNCHANGED <<file, pyPath, handlers, timers, sys_modules, sys_stdout,
                   sys_stderr, console, alive, dirty>>

\* The user flips "Run main()" in the panel.  A loader copies the flag when
\* it is built (line 161), so a flip only matters to the next start; flips
\* while a handler is registered are left out.  (The other check box,
\* use_py_console, is read nowhere in the code and stays at its default.)
SetRunMain ==
    /\ alive
    /\ ~settings.running /\ handlers = << >>
    /\ settings' = [settings EXCEPT !.run_main = ~@]
    /\ last' = Env
    /\ UNCHANGED <<file, pyPath, handlers, timers, sys_modules, sys_stdout,
                   sys_stderr, console, alive, dirty>>

\* An editor saves the file, or something removes it.
WriteFile(c, m) ==
    /\ alive
    /\ file' = [exists |-> TRUE, mtime |-> m, content |-> c]
    /\ file' # file
    /\ dirty' = TRUE
    /\ last' = Env
    /\ UNCHANGED <<pyPath, settings, handlers, timers, sys_modules, sys_stdout,
                   sys_stderr, console, alive>>

DeleteFile ==
    /\ alive
    /\ file.exists
    /\ file' = NoFile
    /\ dirty' = TRUE
    /\ last' = Env
    /\ UNCHANGED <<pyPath, settings, handlers, timers, sys_modules, sys_stdout,
                   sys_stderr, console, alive>>

Init ==
    /\ file \in Files \cup {NoFile}
    /\ pyPath \in BOOLEAN
    /\ settings = [running |-> FALSE, reload |-> FALSE, run_main |-> FALSE,
                   use_py_console |-> TRUE]
    /\ handlers = << >>
    /\ timers = {}
    /\ sys_modules = None
    /\ sys_stdout = "orig"
    /\ sys_stderr = "orig"
    /\ console = {}
    /\ alive = TRUE
    /\ dirty = TRUE
    /\ last = Env

Next ==
    \/ \E mid \in MidEvents : SW_OT_WatchStart_execute(mid)
    \/ \E event \in {"TIMER", "MOUSEMOVE"}, k \in 1..MaxHandlers, mid \in MidEvents :
           HostEvent(event, k, mid)
    \/ SW_OT_WatchEnd_execute
    \/ SW_OT_Reload_execute
    \/ SetRunMain
    \/ \E c \in Contents, m \in 1..MaxMtime : WriteFile(c, m)
    \/ DeleteFile

Spec == Init /\ [][Next]_vars

\* ====================================================== the claims, C1-C10
\* A step is a tick when a timer event reached the handlers of a running watch.
Tick == last'.op = "tick"

SameHandlers == Len(handlers') = Len(handlers)

\* The file's modification time is ahead of what the loader last recorded.
Stale(ld, f) == f.exists /\ f.mtime > ld._last_mtime

AllUpToDate == \A i \in 1..Len(handlers) : ~Stale(handlers[i].loader, file)

\* The content loads without error in the given mode.
LoadOk(c, run_main) ==
    \/ c.kind \in {"ok", "okmain"}
    \/ c.kind = "mainraise" /\ ~run_main

\* The file as the i-th handler found it during the step: the file after the
\* editor's write when that fell into an earlier handler's load.
SeenFile(i) == IF last'.midAt # 0 /\ i > last'.midAt THEN file' ELSE file

\* C1: after a tick whose load attempts all failed, every loader's namespace is
\* still the one it had before the tick (that of its last successful load).
C1_FailureIsolation ==
    [][(Tick /\ last'.loads >= 1 /\ last'.failed = last'.loads)
          => \A i \in 1..Len(handlers) :
                 handlers'[i].loader.module = handlers[i].loader.module]_vars

\* C2: a tick without a pending force request changes a watcher's namespace
\* only when it sees the file's modification time above the last-seen value,
\* and then the namespace holds exactly the bindings of the content the file
\* had at that moment; no other step touches a registered watcher's namespace.
C2_MonotonicConvergence ==
    [][/\ (Tick /\ alive') =>
             /\ SameHandlers
             /\ \A i \in 1..Len(handlers) :
                    \/ i = 1 /\ settings.reload
                    \/ LET f == SeenFile(i)
                           ld == handlers[i].loader
                           ld2 == handlers'[i].loader
                       IN  IF Stale(ld, f)
                           THEN LoadOk(f.content, ld.run_main) =>
                                    ld2.module = Bindings(f.content, ld.run_main)
                           ELSE ld2 = ld
       /\ ~Tick =>
             \/ handlers' = handlers
             \/ handlers' = << >>
             \/ handlers' # << >> /\ Tail(handlers') = handlers]_vars

\* A watcher whose namespace a tick has just replaced by the bindings of a
\* version with a newer modification time.
C2_Witness ==
    /\ last.op = "tick" /\ ~last.forced /\ last.loads = 1 /\ last.failed = 0
    /\ Len(handlers) = 1 /\ file.exists /\ file.content = [kind |-> "ok", x |-> 2]
    /\ handlers[1].loader.module = Bindings(file.content, FALSE)
    /\ handlers[1].loader._last_mtime = 2

C4_AsStated ==
    [][(Tick /\ settings.reload /\ ~dirty /\ file.exists)
          => last'.execs = 1 /\ ~settings'.reload]_vars

\* C4 amended: every tick that finds the flag set clears it; when the file's
\* current version loads without error, no watcher is behind it and nothing
\* writes the file meanwhile, that tick makes exactly one load and one
\* execution; and once flag and file are left alone, ticks execute nothing.
C4_ForceOnce ==
    [][/\ (Tick /\ settings.reload) => ~settings'.reload /\ last'.forced
       /\ (/\ Tick /\ settings.reload /\ ~dirty /\ file.exists /\ AllUpToDate
           /\ LoadOk(file.content, handlers[1].loader.run_main)
           /\ last'.midAt = 0)
             => /\ last'.loads = 1 /\ last'.execs = 1 /\ last'.failed = 0
                /\ handlers'[1].loader.module
                       = Bindings(file.content, handlers[1].loader.run_main)
                /\ ~dirty' /\ AllUpToDate'
       /\ (Tick /\ ~settings.reload /\ ~dirty /\ AllUpToDate)
             => last'.execs = 0]_vars

\* After a forced tick on an unchanged, already loaded file.
C4_Witness ==
    /\ last.op = "tick" /\ last.forced /\ last.loads = 1 /\ last.execs = 1
    /\ last.failed = 0 /\ last.midAt = 0
    /\ settings.running /\ ~settings.reload /\ ~dirty
    /\ file.exists /\ AllUpToDate
    /\ \A i \in 1..Len(handlers) : handlers[i].loader._last_mtime = file.mtime

\* C5 as stated: after any failed load, as long as the file stays as it is,
\* the next tick calls load() again, that is, the watcher is behind the file.
C5_AsStated ==
    (/\ last.op = "tick" /\ last.failed = last.loads /\ last.loads >= 1
     /\ last.midAt = 0 /\ file.exists /\ settings.running)
        => \A i \in 1..Len(handlers) : Stale(handlers[i].loader, file)

\* C5 amended: a tick whose loads all failed leaves every last-seen
\* modification time as it was; a watcher that was behind the file before such
\* a tick is still behind it afterwards; and a tick with the flag clear calls
\* load() once for every watcher that is behind the file.
C5_FailedLoadRetried ==
    [][/\ (Tick /\ last'.failed = last'.loads) =>
             /\ SameHandlers
             /\ \A i \in 1..Len(handlers) :
                    /\ handlers'[i].loader._last_mtime
                           = handlers[i].loader._last_mtime
                    /\ (Stale(handlers[i].loader, file) /\ file' = file)
                           => Stale(handlers'[i].loader, file')
       /\ (Tick /\ ~settings.reload /\ last'.midAt = 0 /\ alive') =>
             last'.loads
                 = Cardinality({i \in 1..Len(handlers) :
                                    Stale(handlers[i].loader, file)})
       /\ \A i \in 1..Len(handlers) :
             (/\ SameHandlers
              /\ handlers'[i].loader._last_mtime # handlers[i].loader._last_mtime)
                 => Tick /\ last'.failed < last'.loads]_vars

\* After a tick whose load failed, the watcher still behind the broken file.
C5_Witness ==
    /\ last.op = "tick" /\ ~last.forced /\ last.loads = 1 /\ last.failed = 1
    /\ settings.running /\ ~dirty /\ Len(handlers) = 1
    /\ file.exists /\ file.content.kind \in {"syntax", "raise"}
    /\ Stale(handlers[1].loader, file)

\* C6: between operator calls sys.stdout and sys.stderr are the original
\* destinations, whichever way the last capture scope was left.
C6_OutputRestored ==
    sys_stdout = "orig" /\ sys_stderr = "orig"

\* After a start whose initial load failed and returned from inside the scope.
C6_Witness ==
    /\ last.op = "start" /\ last.ret = "CANCELLED" /\ last.failed = 1
    /\ Len(last.caps) = 1 /\ last.caps[1].err # {}
    /\ sys_stdout = "orig" /\ sys_stderr = "orig"

\* After an error escaped the scope.
C6_WitnessEscape ==
    /\ last.op = "tick" /\ last.ret = "escape" /\ last.caps # << >>
    /\ sys_stdout = "orig" /\ sys_stderr = "orig"

\* C7: with use_py_console on, the text captured during the load attempts of
\* the last start or tick has been written to the console.
C7_CapturedOutputSurfaced ==
    (settings.use_py_console /\ last.op \in {"start", "tick"})
        => \A i \in 1..Len(last.caps) :
               last.caps[i].out \cup last.caps[i].err \subseteq console

\* C8: when a stop request completes the driver is idle and no timer and no
\* handler is registered any more.
C8_StopDeregisters ==
    [][SW_OT_WatchEnd_execute
          => ~settings'.running /\ timers' = {} /\ handlers' = << >>]_vars

\* C9: a start whose initial load fails returns CANCELLED, registers neither a
\* timer nor a handler and leaves running false.
C9_StartLoadFails ==
    [][(last'.op = "start" /\ last'.loads = 1 /\ last'.failed = 1)
          => /\ last'.ret = "CANCELLED"
             /\ ~settings.running /\ ~settings'.running
             /\ timers' = timers /\ handlers' = handlers]_vars

C9_Witness ==
    /\ last.op = "start" /\ last.loads = 1 /\ last.failed = 1
    /\ last.ret = "CANCELLED" /\ file.exists
    /\ ~settings.running /\ timers = {} /\ handlers = << >>

\* C10: a start on a missing file reports "Script file not found", loads
\* nothing and changes nothing.
C10_StartMissingFile ==
    [][(last'.op = "start" /\ ~settings.running /\ ~file.exists)
          => /\ last'.report = "Script file not found"
             /\ last'.ret = "CANCELLED"
             /\ last'.loads = 0 /\ last'.execs = 0
             /\ UNCHANGED <<file, settings, handlers, timers, sys_modules,
                            sys_stdout, sys_stderr, console, alive>>]_vars

C10_Witness ==
    /\ last.op = "start" /\ last.report = "Script file not found"
    /\ last.loads = 0 /\ ~file.exists /\ ~settings.running
    /\ sys_modules = None /\ timers = {}

\* ===================================================== the claims, C11-C20
\* C11: a start while the watch is running returns CANCELLED and is a no-op:
\* no load, no execution, no new timer or handler, the loaders (namespace and
\* last-seen modification time), running and the force-reload flag unchanged.
C11_StartWhileRunning ==
    [][(last'.op = "start" /\ settings.running)
          => /\ last'.ret = "CANCELLED" /\ last'.report = ""
             /\ last'.loads = 0 /\ last'.execs = 0 /\ last'.caps = << >>
             /\ UNCHANGED <<file, settings, handlers, timers, sys_modules,
                            sys_stdout, sys_stderr, console, alive>>]_vars

\* After a start that found the watch running, with a request pending.
C11_Witness ==
    /\ last.op = "start" /\ last.ret = "CANCELLED" /\ last.report = ""
    /\ last.loads = 0 /\ settings.running /\ settings.reload
    /\ Len(handlers) = 1 /\ Cardinality(timers) = 1
    /\ handlers[1].loader.module.x = 2

\* During a tick the i-th watcher calls load_module: the newest one on a
\* pending force request, any one that finds the file ahead of its record.
TickLoads(i) ==
    \/ i = 1 /\ settings.reload
    \/ Stale(handlers[i].loader, SeenFile(i))

\* C12: a successful load calls main() exactly once when the loader is in
\* run_main mode and the script defines main, and not at all when main is
\* absent or the mode is off; main() is only called after a body that ran
\* to its end.
C12_EntrypointCount ==
    [][/\ (last'.op = "start" /\ last'.ret = "RUNNING_MODAL") =>
             /\ last'.mains = IF settings.run_main /\ file.content.kind = "okmain"
                              THEN 1 ELSE 0
             /\ handlers'[1].loader.module.counter = last'.mains
       /\ (Tick /\ last'.failed = 0 /\ alive') =>
             last'.mains
                 = Cardinality({i \in 1..Len(handlers) :
                                   /\ TickLoads(i)
                                   /\ handlers[i].loader.run_main
                                   /\ SeenFile(i).content.kind = "okmain"})
       /\ (last'.op = "start" /\ ~settings.run_main) => last'.mains = 0
       /\ (Tick /\ \A i \in 1..Len(handlers) : ~handlers[i].loader.run_main)
             => last'.mains = 0
       /\ last'.mains <= last'.execs]_vars

\* After a start in run_main mode on a script that defines main.
C12_Witness ==
    /\ last.op = "start" /\ last.ret = "RUNNING_MODAL" /\ last.midAt = 0
    /\ last.execs = 1 /\ last.mains = 1 /\ settings.run_main
    /\ file.content.kind = "okmain"
    /\ handlers[1].loader.module.counter = 1

\* C13: a tick that finds the file missing, with no force request pending,
\* calls load_module for no watcher and raises nothing; namespaces, last-seen
\* times, the registry, the timers and running stay as they were.  And a tick
\* that finds the file there calls load_module for every watcher whose
\* last-seen time is below the file's, so the file is reloaded once it is back
\* with a greater modification time.
C13_MissingFileIgnored ==
    [][/\ (Tick /\ ~settings.reload /\ ~file.exists) =>
             /\ last'.loads = 0 /\ last'.execs = 0 /\ last'.failed = 0
             /\ last'.ret = "" /\ alive'
             /\ UNCHANGED <<file, settings, handlers, timers, sys_modules,
                            sys_stdout, sys_stderr, console>>
       /\ (Tick /\ ~settings.reload /\ file.exists /\ last'.midAt = 0 /\ alive') =>
             /\ last'.loads >= Cardinality({i \in 1..Len(handlers) :
                                               Stale(handlers[i].loader, file)})
             /\ (AllUpToDate => last'.loads = 0)]_vars

\* After a tick that found the file gone, the namespace still in place.
C13_Witness ==
    /\ last.op = "tick" /\ ~last.forced /\ last.midAt = 0 /\ last.loads = 0
    /\ ~file.exists /\ settings.running /\ Len(handlers) = 1
    /\ handlers[1].loader.module.x = 2 /\ sys_modules = handlers[1].loader.module

\* C14: no error raised while the script is read, compiled or executed
\* leaves load_module; a tick whose load fails leaves the watch running with
\* its timers and handlers registered and the host alive.
C14_NoErrorStopsLoop ==
    [][/\ last'.op \in {"start", "tick"} => last'.ret # "escape" /\ alive'
       /\ (Tick /\ last'.failed >= 1) =>
             /\ settings'.running /\ timers' = timers /\ SameHandlers]_vars

\* C15: a tick that finds a valid version of the file with a modification
\* time above a watcher's last-seen value (as after failed loads followed by
\* a corrected save), nothing writing the file meanwhile, fails no load,
\* gives that watcher exactly the bindings of the version and records the
\* version's modification time.
C15_RecoveryAfterFailure ==
    [][(/\ Tick /\ last'.midAt = 0 /\ file.exists
        /\ \A i \in 1..Len(handlers) :
               LoadOk(file.content, handlers[i].loader.run_main))
          => /\ last'.failed = 0 /\ alive' /\ SameHandlers
             /\ \A i \in 1..Len(handlers) :
                    Stale(handlers[i].loader, file) =>
                        /\ last'.loads >= 1 /\ last'.execs >= 1
                        /\ handlers'[i].loader.module
                               = Bindings(file.content, handlers[i].loader.run_main)
                        /\ handlers'[i].loader._last_mtime = file.mtime]_vars

\* After a tick that found a watcher left empty by a failed load and loaded
\* the corrected version.
C15_Witness ==
    /\ last.op = "tick" /\ last.before = EmptyModule
    /\ ~last.forced /\ last.midAt = 0
    /\ last.loads = 1 /\ last.execs = 1 /\ last.failed = 0
    /\ settings.running /\ Len(handlers) = 1
    /\ file.exists /\ file.content = [kind |-> "ok", x |-> 2]
    /\ handlers[1].loader.module = Bindings(file.content, FALSE)
    /\ handlers[1].loader._last_mtime = file.mtime

\* The last watcher in dispatch order that calls load_module during a tick.
LastLoader == CHOOSE j \in 1..Len(handlers) :
                  TickLoads(j) /\ \A i \in (j+1)..Len(handlers) : ~TickLoads(i)

\* C16: every load starts from an empty namespace and replaces the registry
\* entry: after a start or a tick, a watcher that loaded a version which runs
\* without error holds exactly the bindings of that version (nothing that only
\* an earlier version bound), and the registry entry is the namespace of the
\* load made last.
C16_FreshNamespace ==
    [][/\ (last'.op = "start" /\ last'.ret = "RUNNING_MODAL") =>
             /\ handlers'[1].loader.module = Bindings(file.content, settings.run_main)
             /\ sys_modules' = handlers'[1].loader.module
       /\ (last'.op = "start" /\ last'.loads = 1 /\ pyPath) =>
             sys_modules' \in {EmptyModule, ExecBody(file.content),
                              Bindings(file.content, settings.run_main)}
       /\ (Tick /\ alive') =>
             /\ SameHandlers
             /\ \A i \in 1..Len(handlers) :
                    (/\ TickLoads(i) /\ SeenFile(i).exists
                     /\ LoadOk(SeenFile(i).content, handlers[i].loader.run_main))
                        => handlers'[i].loader.module
                               = Bindings(SeenFile(i).content,
                                          handlers[i].loader.run_main)
             /\ (\E i \in 1..Len(handlers) : TickLoads(i))
                    => sys_modules' = handlers'[LastLoader].loader.module]_vars

\* After a tick that replaced a namespace defining main by the bindings of a
\* version that does not define it.
C16_Witness ==
    /\ last.op = "tick" /\ last.before.main /\ last.before.counter = 1
    /\ last.loads = 1 /\ last.failed = 0 /\ last.midAt = 0
    /\ Len(handlers) = 1 /\ file.exists /\ file.content = [kind |-> "ok", x |-> 2]
    /\ handlers[1].loader.module = Bindings(file.content, TRUE)
    /\ ~handlers[1].loader.module.main /\ handlers[1].loader.module.counter = 0
    /\ sys_modules = handlers[1].loader.module

\* C17: an event delivered while running is false makes no load and no
\* check, removes every handler and its timer and leaves running false; and
\* as long as running is false no step other than a start loads or executes
\* the script or touches a watcher, whatever is written or requested.
C17_NoLoadAfterStop ==
    [][/\ (/\ ~settings.running
           /\ \E event \in {"TIMER", "MOUSEMOVE"} : HostEvent(event, 1, NoMid))
             => /\ last'.op = "cancel" /\ last'.ret = ""
                /\ last'.loads = 0 /\ last'.execs = 0 /\ last'.caps = << >>
                /\ handlers' = << >> /\ timers' = {}
                /\ ~settings'.running /\ settings'.reload = settings.reload
                /\ sys_modules' = sys_modules /\ alive'
       /\ (~settings.running /\ last'.op # "start")
             => /\ last'.loads = 0 /\ last'.execs = 0
                /\ handlers' = handlers \/ handlers' = << >>
                /\ sys_modules' = sys_modules /\ ~settings'.running]_vars

\* After the event that followed a stop, a force request still pending.
C17_Witness ==
    /\ last.op = "cancel" /\ last.loads = 0
    /\ handlers = << >> /\ timers = {} /\ ~settings.running
    /\ settings.reload /\ file.exists /\ file.mtime = 2
    /\ sys_modules = Bindings([kind |-> "ok", x |-> 1], FALSE)

\* C18: at most one handler and one timer are registered at any time, and a
\* tick makes at most one call of load_module.
C18_SingleWatcher ==
    /\ Len(handlers) <= 1 /\ Cardinality(timers) <= 1
    /\ last.op = "tick" => last.loads <= 1

\* C19: after a successful load the last-seen modification time is that of
\* the version of the file whose text was read and executed.
C19_MtimeMatchesContent ==
    [][/\ (last'.op = "start" /\ last'.ret = "RUNNING_MODAL")
             => handlers'[1].loader._last_mtime = file.mtime
       /\ (Tick /\ alive' /\ SameHandlers /\ last'.failed = 0)
             => \A i \in 1..Len(handlers) :
                    TickLoads(i) => handlers'[i].loader._last_mtime
                                       = SeenFile(i).mtime]_vars

\* C20: the first tick after a successful start, the file not written since
\* the initial load and a single watcher registered, loads and executes
\* nothing, whatever was requested before the start.
C20_NoForceLeak ==
    [][(/\ last.op = "start" /\ last.ret = "RUNNING_MODAL" /\ last.midAt = 0
        /\ Len(handlers) = 1 /\ Tick)
          => last'.loads = 0 /\ last'.execs = 0]_vars

====
